---------------------------- MODULE Spec2Model ----------------------------
(***************************************************************************)
(* CivitAIImageFetcher (src/civitai.py): the page-number pagination state  *)
(* machine with the processed-URL set and the two retry loops.             *)
(*                                                                         *)
(* One process() invocation is a run of steps: ProcessBegin (lines         *)
(* 125-134 and the params of lines 45-51), one step per upstream attempt   *)
(* (lines 53-102), the empty check and random.choice (lines 139-145) and   *)
(* one step per downstream attempt (lines 108-121).  The upstream and the  *)
(* downstream answers are the inputs, drawn with \E.                       *)
(*                                                                         *)
(* URLs are numbers: 1..NumUrls are the URLs the upstream serves, NoUrl is *)
(* an item whose url is missing or empty, BadItem is an item that is not   *)
(* a JSON object (item.get raises AttributeError, which no handler of the  *)
(* class catches).                                                         *)
(***************************************************************************)
EXTENDS Integers, Sequences, FiniteSets, TLC

MAX_RETRIES == 3

SEEN_LIMIT == 1000

\* Bounds of the model.
MaxPages == 2
MaxItems == 2
NumUrls == 2

NoUrl == 0
BadItem == 0 - 1
Absent == 0 - 1

Urls == 1..NumUrls

\* A processed-URL set of exactly SEEN_LIMIT URLs: what SEEN_LIMIT successful
\* cycles leave behind.  It shares the URL NumUrls with the served URLs.
History == NumUrls..(NumUrls + SEEN_LIMIT - 1)

ItemValues == {BadItem, NoUrl} \cup Urls

ItemSeqs == UNION {[1..n -> ItemValues] : n \in 0..MaxItems}

\* The decoded JSON body of a 2xx answer: `metadata` present or not, its
\* totalPages (Absent when the key is missing), `items` present or not.
Responses ==
    {d \in [metadata : BOOLEAN, totalPages : {Absent} \cup (1..MaxPages),
            has_items : BOOLEAN, items : ItemSeqs] :
        /\ (~d.metadata => d.totalPages = Absent)
        /\ (~d.has_items => d.items = <<>>)}

NoData == [metadata |-> FALSE, totalPages |-> Absent, has_items |-> FALSE, items |-> <<>>]

Range(s) == {s[i] : i \in DOMAIN s}

VARIABLES
    current_page,     \* self.current_page
    has_more_pages,   \* self.has_more_pages
    processed_urls,   \* self.processed_urls
    pc,               \* "idle", "fetch", "fetched", "send", "crashed"
    params_page,      \* params['page'] of the fetch in progress
    attempt,          \* iterations done in the retry loop in progress
    data,             \* fetch_images_batch()'s local `data`: the body of its 2xx answer
    image_urls,       \* what fetch_images_batch() returned
    image_url,        \* what random.choice() picked
    fetch_status,     \* "none", "ok", "failed", "raised"
    result,           \* "none", "no_images", "sent", "send_failed", "raised"
    raised,           \* the exception that escaped: "none", "AttributeError", "IndexError"
    entry_page,       \* self.current_page when process() was entered
    entry_more,       \* self.has_more_pages when process() was entered
    fetch_seen,       \* self.processed_urls when fetch_images_batch() was called
    requested,        \* the page numbers of the upstream requests of this invocation
    sent,             \* the URLs of the downstream requests of this invocation
    fetch_sleeps,     \* time.sleep(RETRY_DELAY) calls of the fetch loop
    send_sleeps,      \* time.sleep(RETRY_DELAY) calls of the send loop
    entry_size,       \* len(self.processed_urls) when process() was entered
    forwards,         \* per served URL, the 2xx answers of the downstream to it since
                      \* processed_urls was last emptied (counted up to 2)
    listing_pages     \* the upstream: 0 when it answers anything, N >= 1 when every
                      \* answer is a 2xx with metadata.totalPages = N and items

vars == <<current_page, has_more_pages, processed_urls, pc, params_page, attempt,
          data, image_urls, image_url, fetch_status, result, raised, entry_page,
          entry_more, fetch_seen, requested, sent, fetch_sleeps,
          send_sleeps, entry_size, forwards, listing_pages>>

fields == <<current_page, has_more_pages, processed_urls>>

-----------------------------------------------------------------------------
(* fetch_images_batch: the pure parts *)

\* metadata.get('totalPages', 1)
TotalPages(d) == IF d.totalPages = Absent THEN 1 ELSE d.totalPages

\* if self.current_page >= total_pages
LastPageGt(page, d) == page > TotalPages(d)
LastPage(page, d) == page >= TotalPages(d)

\* lines 62-74: the pagination state after the metadata block
AfterMetadataStep2(page, more, d) ==
    IF ~d.metadata THEN [page |-> page, more |-> more]
    ELSE IF LastPage(page, d) THEN [page |-> 1, more |-> FALSE]
    ELSE [page |-> page + 2, more |-> TRUE]
AfterMetadataNoAdvance(page, more, d) ==
    IF ~d.metadata THEN [page |-> page, more |-> more]
    ELSE IF LastPage(page, d) THEN [page |-> 1, more |-> FALSE]
    ELSE [page |-> page, more |-> TRUE]
AfterMetadataAlways(page, more, d) ==
    IF d.metadata /\ LastPage(page, d) THEN [page |-> 1, more |-> FALSE]
    ELSE [page |-> page + 1, more |-> TRUE]
AfterMetadata(page, more, d) ==
    IF ~d.metadata THEN [page |-> page, more |-> more]
    ELSE IF LastPage(page, d) THEN [page |-> 1, more |-> FALSE]
    ELSE [page |-> page + 1, more |-> TRUE]

\* 'items' in data and len(data['items']) > 0
HasItems(d) == d.has_items /\ Len(d.items) > 0

\* lines 89-92: a response without items resets the pagination state
AfterItemsNoReset(pm, d) == pm
AfterItemsFlagOnly(pm, d) == IF HasItems(d) THEN pm ELSE [page |-> pm.page, more |-> FALSE]
AfterItems(pm, d) == IF HasItems(d) THEN pm ELSE [page |-> 1, more |-> FALSE]

\* url = item.get('url') raises AttributeError on an item that is no object
Raises(d) == HasItems(d) /\ BadItem \in Range(d.items)

\* if url and url not in self.processed_urls
KeepSeen(url, seen) == url # NoUrl
KeepEmpty(url, seen) == url \notin seen
Keep(url, seen) == url # NoUrl /\ url \notin seen

\* lines 78-82: the loop over data['items']
RECURSIVE NewUrls(_, _)
NewUrls(items, seen) ==
    IF items = <<>> THEN <<>>
    ELSE IF Keep(Head(items), seen)
         THEN <<Head(items)>> \o NewUrls(Tail(items), seen)
         ELSE NewUrls(Tail(items), seen)

\* lines 76-95: the value returned for a 2xx answer
Batch(d, seen) == IF HasItems(d) THEN NewUrls(d.items, seen) ELSE <<>>

\* for _ in range(MAX_RETRIES): the loop is over after n iterations
LoopDoneLate(n) == n >= MAX_RETRIES + 1
LoopDone(n) == n >= MAX_RETRIES

\* 'page': self.current_page in the params dict
ParamsPageFirst(page) == 1
ParamsPage(page) == page

(* process: the pure parts *)

\* if len(self.processed_urls) > 1000
SeenTooLargeGe(seen) == Cardinality(seen) >= SEEN_LIMIT
SeenTooLarge(seen) == Cardinality(seen) > SEEN_LIMIT

\* lines 128-134: the fields after the reset block of process()
AfterResetKeepFlag(page, more, seen) ==
    IF ~more
    THEN [page |-> 1, more |-> more, seen |-> IF SeenTooLarge(seen) THEN {} ELSE seen]
    ELSE [page |-> page, more |-> more, seen |-> seen]
AfterReset(page, more, seen) ==
    IF ~more
    THEN [page |-> 1, more |-> TRUE, seen |-> IF SeenTooLarge(seen) THEN {} ELSE seen]
    ELSE [page |-> page, more |-> more, seen |-> seen]

\* if not image_urls
NeverEmpty(urls) == FALSE
NoImages(urls) == urls = <<>>

\* random.choice(image_urls)
RandomChoiceAny(urls) == Urls
RandomChoice(urls) == Range(urls)

\* self.processed_urls.add(image_url), reached only after a 2xx answer
SeenAfterSendAlways(seen, url, ok) == seen \cup {url}
SeenAfterSendNever(seen, url, ok) == seen
SeenAfterSend(seen, url, ok) == IF ok THEN seen \cup {url} ELSE seen

-----------------------------------------------------------------------------
\* After construction (lines 35-41), with a processed-URL set that is empty or
\* holds SEEN_LIMIT URLs: the fields after SEEN_LIMIT successful cycles on an
\* upstream that sends no metadata (current_page and has_more_pages untouched).
InitObject ==
    /\ current_page = 1
    /\ has_more_pages = TRUE
    /\ processed_urls \in {{}, History}
    /\ pc = "idle"
    /\ params_page = 1
    /\ attempt = 0
    /\ data = NoData
    /\ image_urls = <<>>
    /\ image_url = NoUrl
    /\ fetch_status = "none"
    /\ result = "none"
    /\ raised = "none"
    /\ entry_page = 1
    /\ entry_more = TRUE
    /\ fetch_seen = processed_urls
    /\ requested = <<>>
    /\ sent = <<>>
    /\ fetch_sleeps = 0
    /\ send_sleeps = 0
    /\ entry_size = Cardinality(processed_urls)
    /\ forwards = [u \in Urls |-> IF u \in processed_urls THEN 1 ELSE 0]

Init == InitObject /\ listing_pages = 0

\* process() up to the call of fetch_images_batch(), and its params dict
ProcessBegin ==
    /\ pc = "idle"
    /\ LET r == AfterReset(current_page, has_more_pages, processed_urls) IN
        /\ current_page' = r.page
        /\ has_more_pages' = r.more
        /\ processed_urls' = r.seen
        /\ params_page' = ParamsPage(r.page)
        /\ fetch_seen' = r.seen
        /\ forwards' = IF r.seen = {} THEN [u \in Urls |-> 0] ELSE forwards
    /\ entry_size' = Cardinality(processed_urls)
    /\ entry_page' = current_page
    /\ entry_more' = has_more_pages
    /\ pc' = "fetch"
    /\ attempt' = 0
    /\ data' = NoData
    /\ image_urls' = <<>>
    /\ image_url' = NoUrl
    /\ fetch_status' = "none"
    /\ result' = "none"
    /\ requested' = <<>>
    /\ sent' = <<>>
    /\ fetch_sleeps' = 0
    /\ send_sleeps' = 0
    /\ UNCHANGED <<raised, listing_pages>>

\* One iteration that ends in requests.exceptions.RequestException (no
\* connection, a non-2xx status): sleep, and after the last one return [].
FetchFail ==
    /\ pc = "fetch"
    /\ ~LoopDone(attempt)
    /\ requested' = Append(requested, params_page)
    /\ fetch_sleeps' = fetch_sleeps + 1
    /\ attempt' = attempt + 1
    /\ IF LoopDone(attempt + 1)
       THEN /\ pc' = "fetched"
            /\ fetch_status' = "failed"
            /\ image_urls' = <<>>
       ELSE UNCHANGED <<pc, fetch_status, image_urls>>
    /\ UNCHANGED <<fields, params_page, data, image_url, result, raised, entry_page,
                   entry_more, fetch_seen, sent, send_sleeps, entry_size, forwards, listing_pages>>

\* One iteration with a 2xx answer whose body d is processed to the return.
FetchOk(d) ==
    /\ pc = "fetch"
    /\ ~LoopDone(attempt)
    /\ ~Raises(d)
    /\ requested' = Append(requested, params_page)
    /\ attempt' = attempt + 1
    /\ data' = d
    /\ LET pm == AfterItems(AfterMetadata(current_page, has_more_pages, d), d) IN
        /\ current_page' = pm.page
        /\ has_more_pages' = pm.more
    /\ image_urls' = Batch(d, processed_urls)
    /\ fetch_status' = "ok"
    /\ pc' = "fetched"
    /\ UNCHANGED <<processed_urls, params_page, image_url, result, raised, entry_page,
                   entry_more, fetch_seen, sent, fetch_sleeps, send_sleeps,
                   entry_size, forwards, listing_pages>>

\* One iteration with a 2xx answer one of whose items is no object: the
\* metadata block has run, item.get raises AttributeError, which is no
\* RequestException and leaves fetch_images_batch() and process().
FetchRaise(d) ==
    /\ pc = "fetch"
    /\ ~LoopDone(attempt)
    /\ Raises(d)
    /\ requested' = Append(requested, params_page)
    /\ attempt' = attempt + 1
    /\ data' = d
    /\ LET pm == AfterMetadata(current_page, has_more_pages, d) IN
        /\ current_page' = pm.page
        /\ has_more_pages' = pm.more
    /\ fetch_status' = "raised"
    /\ result' = "raised"
    /\ raised' = "AttributeError"
    /\ pc' = "crashed"
    /\ UNCHANGED <<processed_urls, params_page, image_urls, image_url, entry_page,
                   entry_more, fetch_seen, sent, fetch_sleeps, send_sleeps,
                   entry_size, forwards, listing_pages>>

\* lines 139-141: no images, process() returns
ProcessNoImages ==
    /\ pc = "fetched"
    /\ NoImages(image_urls)
    /\ result' = "no_images"
    /\ pc' = "idle"
    /\ data' = NoData
    /\ UNCHANGED <<fields, params_page, attempt, image_urls, image_url,
                   fetch_status, raised, entry_page, entry_more, fetch_seen,
                   requested, sent, fetch_sleeps, send_sleeps, entry_size, forwards, listing_pages>>

\* lines 144-147: random.choice (IndexError on an empty list) and the call
\* of send_to_endpoint()
SelectImage ==
    /\ pc = "fetched"
    /\ ~NoImages(image_urls)
    /\ IF image_urls = <<>>
       THEN /\ raised' = "IndexError"
            /\ result' = "raised"
            /\ pc' = "crashed"
            /\ UNCHANGED image_url
       ELSE /\ image_url' \in RandomChoice(image_urls)
            /\ pc' = "send"
            /\ UNCHANGED <<raised, result>>
    /\ attempt' = 0
    /\ data' = NoData
    /\ UNCHANGED <<fields, params_page, image_urls, fetch_status, entry_page,
                   entry_more, fetch_seen, requested, sent, fetch_sleeps,
                   send_sleeps, entry_size, forwards, listing_pages>>

\* One iteration of send_to_endpoint() with a 2xx answer
SendOk ==
    /\ pc = "send"
    /\ ~LoopDone(attempt)
    /\ sent' = Append(sent, image_url)
    /\ attempt' = attempt + 1
    /\ processed_urls' = SeenAfterSend(processed_urls, image_url, TRUE)
    /\ forwards' = [forwards EXCEPT ![image_url] = IF @ < 2 THEN @ + 1 ELSE @]
    /\ result' = "sent"
    /\ pc' = "idle"
    /\ UNCHANGED <<current_page, has_more_pages, params_page, data, image_urls,
                   image_url, fetch_status, raised, entry_page, entry_more,
                   fetch_seen, requested, fetch_sleeps, send_sleeps, entry_size, listing_pages>>

\* One iteration of send_to_endpoint() that ends in RequestException: sleep,
\* and after the last one return False.
SendFail ==
    /\ pc = "send"
    /\ ~LoopDone(attempt)
    /\ sent' = Append(sent, image_url)
    /\ attempt' = attempt + 1
    /\ send_sleeps' = send_sleeps + 1
    /\ processed_urls' = SeenAfterSend(processed_urls, image_url, FALSE)
    /\ IF LoopDone(attempt + 1)
       THEN /\ result' = "send_failed"
            /\ pc' = "idle"
       ELSE UNCHANGED <<result, pc>>
    /\ UNCHANGED <<current_page, has_more_pages, params_page, data, image_urls,
                   image_url, fetch_status, raised, entry_page, entry_more,
                   fetch_seen, requested, fetch_sleeps, entry_size, forwards, listing_pages>>

Next ==
    \/ ProcessBegin
    \/ FetchFail
    \/ \E d \in Responses : FetchOk(d)
    \/ \E d \in Responses : FetchRaise(d)
    \/ ProcessNoImages
    \/ SelectImage
    \/ SendOk
    \/ SendFail

Spec == Init /\ [][Next]_vars

\* The program on an upstream whose listing has a fixed number of pages and
\* answers every request with a 2xx, that totalPages and well-formed items.
\* main's loop calls process() again and again (line 167, lines 170-172), and
\* each call runs to its end.
WrapInit == InitObject /\ listing_pages \in 1..MaxPages

FetchListed ==
    \E d \in Responses :
        /\ d.metadata /\ d.totalPages = listing_pages /\ HasItems(d)
        /\ FetchOk(d)

WrapNext ==
    \/ ProcessBegin
    \/ FetchListed
    \/ ProcessNoImages
    \/ SelectImage
    \/ SendOk
    \/ SendFail

WrapSpec == WrapInit /\ [][WrapNext]_vars /\ WF_vars(WrapNext)

-----------------------------------------------------------------------------
(* Properties *)

\* The value of metadata.totalPages the code compares against, read off the body.
Total(d) == IF d.totalPages = Absent THEN 1 ELSE d.totalPages

\* The items' urls that are non-empty and not in `seen`, in response order.
Unseen(items, seen) == SelectSeq(items, LAMBDA u : u \in Urls /\ u \notin seen)

\* fetch_images_batch() has processed a 2xx answer (returned, or raised in its item loop)
Answered == fetch_status \in {"ok", "raised"} /\ pc \in {"fetched", "crashed"}

\* fetch_images_batch() has returned from a 2xx answer
Returned == fetch_status = "ok" /\ pc = "fetched"

\* C1: a 2xx answer with metadata whose totalPages (1 when absent) is at most
\* the requested page leaves current_page = 1 and has_more_pages = FALSE, and
\* the call still returns every unseen url of that page.
C1_LastPageResets ==
    (Answered /\ data.metadata /\ params_page >= Total(data)) =>
        /\ current_page = 1
        /\ has_more_pages = FALSE
        /\ Returned =>
            \A u \in Urls : (u \in Range(data.items) /\ u \notin fetch_seen)
                                => u \in Range(image_urls)

C1_Witness ==
    /\ Returned /\ data.metadata /\ data.totalPages = 2 /\ params_page = 2
    /\ image_urls # <<>> /\ current_page = 1 /\ ~has_more_pages

\* C2: no url that is in processed_urls when fetch_images_batch() is called
\* is in the batch the call returns.
C2_SeenNeverReturned ==
    \A i \in DOMAIN image_urls : image_urls[i] \notin fetch_seen

C2_Witness ==
    /\ Returned /\ image_urls # <<>>
    /\ \E i \in DOMAIN data.items : data.items[i] \in fetch_seen

\* C3: all send attempts of one process() invocation carry the same url, and
\* that url is an element of the batch its fetch returned.
C3_OneUrlPerInvocation ==
    /\ \A i \in DOMAIN sent : sent[i] = image_url /\ image_url \in Range(image_urls)
    /\ Cardinality(Range(sent)) <= 1
    /\ pc = "send" => image_url \in Range(image_urls)

C3_Witness ==
    /\ Len(sent) = MAX_RETRIES
    /\ Len(image_urls) = 2 /\ image_urls[1] # image_urls[2]
    /\ image_url = image_urls[2]

\* C4: within one process() invocation processed_urls gains the selected url
\* exactly when the send succeeded, and nothing else: after a successful send
\* it is the set of the fetch plus the selected url, and in every other state
\* of the invocation it is the set of the fetch.
C4_SeenGainsOnSuccessOnly ==
    /\ result = "sent" =>
        /\ image_url \in processed_urls
        /\ processed_urls = fetch_seen \cup {image_url}
    /\ result # "sent" => processed_urls = fetch_seen
    /\ Cardinality(processed_urls \ fetch_seen) <= 1

C4_Witness ==
    /\ pc = "idle" /\ result = "sent" /\ send_sleeps > 0
    /\ image_url \in processed_urls /\ image_url \notin fetch_seen

\* C5: after MAX_RETRIES failed attempts fetch_images_batch() returns an empty
\* batch and send_to_endpoint() returns False, and no exception leaves either
\* of them or process(), whatever the upstream sent.
C5_NoExceptionEscapes ==
    /\ (fetch_sleeps = MAX_RETRIES /\ pc # "fetch") =>
            fetch_status = "failed" /\ image_urls = <<>>
    /\ (send_sleeps = MAX_RETRIES /\ pc # "send") => result = "send_failed"
    /\ pc # "crashed"
    /\ raised = "none"

\* C6: where process() issues its fetch, processed_urls holds at most
\* SEEN_LIMIT urls.
C6_SeenBoundedAtFetch ==
    pc = "fetch" => Cardinality(processed_urls) <= SEEN_LIMIT

\* C7: a 2xx answer without items (no items key, or an empty array) makes
\* fetch_images_batch() return an empty batch with current_page = 1 and
\* has_more_pages = FALSE, whatever its metadata.
C7_NoItemsResets ==
    (Returned /\ (~data.has_items \/ data.items = <<>>)) =>
        /\ image_urls = <<>>
        /\ current_page = 1
        /\ has_more_pages = FALSE

C7_Witness ==
    /\ Returned /\ data.has_items /\ data.items = <<>>
    /\ data.metadata /\ data.totalPages = 2 /\ params_page = 1
    /\ current_page = 1 /\ ~has_more_pages

\* C8: when the fetch returned an empty batch, process() returns with no send
\* attempt made and processed_urls as it was at the fetch.
C8_EmptyBatchNoSend ==
    (fetch_status \in {"ok", "failed"} /\ image_urls = <<>>) =>
        /\ pc \in {"fetched", "idle"}
        /\ pc = "idle" => result = "no_images"
        /\ raised = "none"
        /\ sent = <<>>
        /\ send_sleeps = 0
        /\ processed_urls = fetch_seen

\* The batch was empty although the answer had items: the page advanced
\* (an answer without items resets it), and process() has returned.
C8_Witness ==
    /\ pc = "idle" /\ result = "no_images" /\ fetch_status = "ok"
    /\ fetch_seen # {} /\ current_page = params_page + 1 /\ sent = <<>>

\* C9: a 2xx answer with metadata, requested page < totalPages and a
\* non-empty items array leaves current_page one higher and has_more_pages
\* TRUE, whether or not the batch is empty; the next process() requests that
\* page.
C9_Advanced ==
    (Answered /\ data.metadata /\ params_page < Total(data)
        /\ data.has_items /\ data.items # <<>>) =>
            current_page = params_page + 1 /\ has_more_pages = TRUE

C9_NextRequest ==
    /\ (pc = "idle" /\ pc' = "fetch" /\ fetch_status = "ok" /\ has_more_pages
            /\ current_page = params_page + 1)
        => (params_page' = params_page + 1 /\ current_page' = current_page)
    /\ (pc = "fetch" /\ requested' # requested)
        => requested' = Append(requested, params_page)

C9_AdvanceByOne == [](C9_Advanced) /\ [][C9_NextRequest]_vars

C9_Witness ==
    /\ pc = "fetch" /\ params_page = 2 /\ entry_page = 2 /\ entry_more
    /\ requested = <<2>>

\* C10: the batch returned from a 2xx answer is the sequence of the items'
\* urls with the empty or missing and the seen ones left out, in response
\* order.
C10_BatchIsFilteredItems ==
    Returned => image_urls = Unseen(data.items, fetch_seen)

C10_Witness ==
    /\ Returned /\ Len(data.items) = 2 /\ Len(image_urls) = 2
    /\ image_urls[1] > image_urls[2]

\* C11: between two clears of processed_urls, and from construction to the
\* first clear, the downstream answers 2xx to no url twice.
C11_NoDoubleForward ==
    \A u \in Urls : forwards[u] <= 1

\* Every served url was forwarded once, the last one with others already
\* forwarded and still in the answers' reach.
C11_Witness ==
    /\ pc = "idle" /\ result = "sent"
    /\ processed_urls = Urls
    /\ \A u \in Urls : forwards[u] = 1

\* C12: process() empties processed_urls exactly when it is entered with
\* has_more_pages = FALSE and more than SEEN_LIMIT urls in the set; no other
\* step of the program removes an element of the set.
C12_Step ==
    IF pc = "idle" /\ pc' = "fetch" /\ ~has_more_pages
            /\ Cardinality(processed_urls) > SEEN_LIMIT
    THEN processed_urls' = {}
    ELSE processed_urls \subseteq processed_urls'

C12_ClearOnlyAtWrap == [][C12_Step]_vars

C12_Witness ==
    /\ pc = "fetch" /\ ~entry_more /\ entry_size > SEEN_LIMIT
    /\ processed_urls = {}

\* C13: a process() entered with has_more_pages = FALSE sets current_page = 1
\* and has_more_pages = TRUE before it fetches, so has_more_pages is TRUE
\* wherever process() issues an upstream request.
C13_FlagSetAtRequest ==
    pc = "fetch" =>
        /\ has_more_pages = TRUE
        /\ ~entry_more => (current_page = 1 /\ params_page = 1)

C13_Witness ==
    /\ pc = "fetch" /\ ~entry_more /\ has_more_pages /\ attempt = 1
    /\ requested = <<1>>

\* C14: all upstream requests of one fetch_images_batch() call ask for the
\* page that current_page held when the call began; a failed attempt leaves
\* current_page and has_more_pages as they are; within the call the two
\* change in no step but the one that processes a 2xx answer; and
\* current_page ends a process() at most 1 above where it began.
C14_SamePage ==
    /\ \A i \in DOMAIN requested : requested[i] = params_page
    /\ pc = "fetch" => params_page = current_page
    /\ current_page <= entry_page + 1

C14_Step ==
    /\ (pc = "fetch" /\ fetch_sleeps' # fetch_sleeps)
        => (current_page' = current_page /\ has_more_pages' = has_more_pages)
    /\ (current_page' # current_page \/ has_more_pages' # has_more_pages)
        => \/ pc = "idle" /\ pc' = "fetch"
           \/ pc = "fetch" /\ fetch_status' \in {"ok", "raised"}

C14_PaginationOncePerFetch == [](C14_SamePage) /\ [][C14_Step]_vars

C14_Witness ==
    /\ pc = "fetched" /\ fetch_status = "ok"
    /\ requested = <<1, 1, 1>> /\ fetch_sleeps = 2
    /\ entry_page = 1 /\ current_page = 2

\* C15: one process() makes at most MAX_RETRIES upstream and at most
\* MAX_RETRIES downstream requests; each loop ends with its first 2xx answer,
\* makes exactly MAX_RETRIES attempts when all fail, and sleeps once per failed
\* attempt, the last one included; a loop that has not ended can take its next
\* iteration.
C15_BoundedAttempts ==
    /\ Len(requested) <= MAX_RETRIES
    /\ Len(sent) <= MAX_RETRIES
    /\ fetch_sleeps <= Len(requested)
    /\ send_sleeps <= Len(sent)
    /\ pc = "fetch" =>
        /\ fetch_status = "none"
        /\ fetch_sleeps = Len(requested)
        /\ Len(requested) < MAX_RETRIES
        /\ attempt = Len(requested)
    /\ fetch_status \in {"ok", "raised"} => Len(requested) = fetch_sleeps + 1
    /\ fetch_status = "failed" =>
        /\ Len(requested) = MAX_RETRIES
        /\ fetch_sleeps = MAX_RETRIES
    /\ pc = "send" =>
        /\ send_sleeps = Len(sent)
        /\ Len(sent) < MAX_RETRIES
        /\ attempt = Len(sent)
    /\ result = "sent" => Len(sent) = send_sleeps + 1
    /\ result = "send_failed" =>
        /\ Len(sent) = MAX_RETRIES
        /\ send_sleeps = MAX_RETRIES
    /\ pc \in {"idle", "crashed"} => result # "none" \/ requested = <<>>
    /\ pc \in {"fetch", "fetched", "send"} =>
            ENABLED (FetchFail \/ ProcessNoImages \/ SelectImage \/ SendFail)

C15_Witness ==
    /\ pc = "idle" /\ result = "send_failed"
    /\ Len(requested) = MAX_RETRIES /\ fetch_sleeps = MAX_RETRIES - 1
    /\ Len(sent) = MAX_RETRIES /\ send_sleeps = MAX_RETRIES

\* C16: a fetch_images_batch() call whose MAX_RETRIES attempts all fail
\* returns with current_page, has_more_pages and processed_urls as they were
\* when it was called, and the next process() requests the same page again;
\* a failed attempt of send_to_endpoint() leaves the three fields as they are.
C16_FailedFetch ==
    fetch_status = "failed" =>
        /\ current_page = params_page
        /\ has_more_pages = TRUE
        /\ processed_urls = fetch_seen

C16_Step ==
    /\ (pc = "fetch" /\ fetch_sleeps' # fetch_sleeps) => UNCHANGED fields
    /\ (pc = "send" /\ send_sleeps' # send_sleeps) => UNCHANGED fields
    /\ (pc = "idle" /\ pc' = "fetch" /\ fetch_status = "failed")
        => (params_page' = params_page /\ UNCHANGED fields)

C16_FailureChangesNothing == [](C16_FailedFetch) /\ [][C16_Step]_vars

C16_Witness ==
    /\ pc = "idle" /\ fetch_status = "failed" /\ result = "no_images"
    /\ requested = <<2, 2, 2>> /\ entry_page = 2 /\ current_page = 2
    /\ has_more_pages /\ processed_urls = fetch_seen /\ processed_urls # {}

\* C17: current_page >= 1, and has_more_pages = FALSE only with
\* current_page = 1, in every state, in particular after construction and
\* after each return of fetch_images_batch() and process().
C17_PageInvariant ==
    /\ current_page >= 1
    /\ ~has_more_pages => current_page = 1

C17_Witness ==
    /\ pc = "idle" /\ result # "none" /\ fetch_status = "ok"
    /\ params_page = 2 /\ current_page = 1 /\ ~has_more_pages

\* C18: on an upstream that answers every request with a 2xx, metadata
\* totalPages = N and items, the invocations of process() request the pages
\* 1, 2, ..., N, 1, 2, ... in that order, one request each, and page 1 is
\* requested again and again.
C18_OnePagePerCycle ==
    /\ params_page \in 1..listing_pages
    /\ pc \in {"fetched", "send"} \/ (pc = "idle" /\ result # "none")
        => requested = <<params_page>>

C18_NextPage ==
    (pc = "idle" /\ pc' = "fetch") =>
        params_page' = IF result = "none" THEN 1
                       ELSE IF params_page < listing_pages THEN params_page + 1
                       ELSE 1

C18_Wraparound ==
    /\ [](C18_OnePagePerCycle)
    /\ [][C18_NextPage]_vars
    /\ []<>(pc = "fetched" /\ requested = <<1>>)

C18_Witness ==
    /\ listing_pages = 2 /\ pc = "fetched" /\ requested = <<1>>
    /\ ~entry_more /\ current_page = 2

\* C19: a 2xx answer with items and without metadata leaves current_page and
\* has_more_pages as they were, and the process() after it requests the same
\* page again.
C19_Answer ==
    (pc = "fetch" /\ fetch_status' \in {"ok", "raised"}
        /\ ~data'.metadata /\ data'.has_items /\ data'.items # <<>>)
    => (current_page' = current_page /\ has_more_pages' = has_more_pages)

C19_NextRequest ==
    (pc = "idle" /\ pc' = "fetch" /\ fetch_status = "ok" /\ has_more_pages
        /\ current_page = params_page)
    => (params_page' = params_page /\ current_page' = current_page
            /\ has_more_pages' = has_more_pages)

C19_NoMetadataNoAdvance == [][C19_Answer /\ C19_NextRequest]_vars

C19_Witness ==
    /\ Returned /\ ~data.metadata /\ data.items # <<>>
    /\ params_page = 2 /\ current_page = 2 /\ has_more_pages /\ entry_page = 2

=============================================================================
